---- MODULE Spec2Model ----
(***************************************************************************)
(* Model of the run orchestration core of agent-council:                   *)
(*   backend/app/services/orchestrator.py  (RunOrchestrator)               *)
(*   backend/app/services/voting.py        (VotingService.aggregate_votes) *)
(*   backend/app/services/evaluation.py    (blind labels, label mapping)   *)
(*   backend/app/adapters/registry.py      (AdapterRegistry.get_adapter)   *)
(*   backend/app/models/orm.py             (tables and their constraints)  *)
(*                                                                         *)
(* One run is followed through create_run, generate_answers and            *)
(* run_evaluation.  The variables db_* are the committed rows of the       *)
(* store; every other variable is the state of the invocation in progress  *)
(* or a history variable recording what that invocation did.               *)
(***************************************************************************)
EXTENDS Integers, Sequences, FiniteSets, TLC

VARIABLES
    max_concurrency,   \* Settings.max_concurrency of this process
    db_run,            \* TRUE once the run row is committed
    db_status,         \* committed RunORM.status
    db_models,         \* committed SelectedModelORM rows, in insertion order
    db_answers,        \* committed AnswerORM rows, in insertion order
    db_reviews,        \* committed ReviewORM rows, in insertion order
    db_aggregation,    \* committed AggregationResultORM rows of the run
    pc,                \* control point of the orchestrator coroutine
    tasks,             \* the fan-out of the invocation in progress
    semaphore,         \* value of the invocation's asyncio.Semaphore
    answers,           \* run_evaluation: the candidate answers (local list)
    reviewers,         \* run_evaluation: the reviewer dicts (local list)
    completed,         \* history: generation tasks in completion order
    calls,             \* history: number of invocations started on the run
    last,              \* history: what the latest invocation was and did
    refused,           \* history: the latest invocation, if it found no run
    model_list,        \* labelling: the models argument, params included
    label_map,         \* labelling: the labels the latest application gave
    applied,           \* labelling: the functions applied so far, in order
    vote_reviews,      \* voting: the reviews argument of aggregate_votes
    vote_labels,       \* voting: the label_to_model argument
    set_order,         \* voting: how this interpreter iterates the label set
    outputs,           \* voting: what each aggregate_votes invocation returned
    assign_input,      \* blind labels: the answers argument of assign_labels
    assign_output,     \* blind labels: the list assign_labels returned
    invocations        \* process: the invocations in progress side by side

\* The state of the orchestrator and its store.
runVars == <<max_concurrency, db_run, db_status, db_models, db_answers,
             db_reviews, db_aggregation, pc, tasks, semaphore, answers,
             reviewers, completed, calls, last, refused>>

\* The state of the labelling functions taken on their own.
labelVars == <<model_list, label_map, applied>>

\* The state of aggregate_votes taken on its own.
voteVars == <<vote_reviews, vote_labels, set_order, outputs>>

\* The state of assign_labels taken on its own.
assignVars == <<assign_input, assign_output>>

\* The invocations of one process that run side by side.
processVars == <<invocations>>

vars == <<runVars, labelVars, voteVars, assignVars, processVars>>

(***************************************************************************)
(* Bounds of the model.                                                    *)
(***************************************************************************)
MaxModels == 2         \* longest selected_models list
MaxConcurrency == 2    \* largest configured max_concurrency
MaxReviewers == 1      \* longest explicit reviewer_models list
MaxCalls == 3          \* generate_answers + run_evaluation invocations
MaxLabelled == 3       \* longest model list given to the labelling functions
MaxApplications == 2   \* labelling functions applied in a row to one list
MaxVoteReviews == 2    \* longest reviews list given to aggregate_votes
MaxInvocations == 2    \* aggregate_votes invocations on one input
MaxAnswers == 28       \* longest list of answers that is given blind labels
MaxSideBySide == 2     \* invocations in progress at the same time

(***************************************************************************)
(* Python values.                                                          *)
(***************************************************************************)
None == "<None>"

\* Python truthiness of an Optional[str]: None and "" are both falsy.
Truthy(s) == s # None /\ s # ""

\* The RunStatus enumeration.
PENDING == "pending"
GENERATING_ANSWERS == "generating_answers"
ANSWERS_COMPLETE == "answers_complete"
EVALUATING == "evaluating"
COMPLETE == "complete"
FAILED == "failed"

RunStatus == {PENDING, GENERATING_ANSWERS, ANSWERS_COMPLETE, EVALUATING,
              COMPLETE, FAILED}

\* run_evaluation: max_review_attempts = 2
max_review_attempts == 2

\* The keys of AdapterRegistry._adapters.
RegisteredProviders == {"anthropic", "openai", "google"}

\* AdapterRegistry.get_adapter raises ValueError for any other provider.
GetAdapterRaises(provider) == provider \notin RegisteredProviders

UnknownProvider(provider) == "Unknown provider: " \o provider

(***************************************************************************)
(* Small arithmetic helpers.                                               *)
(***************************************************************************)
RECURSIVE Gcd(_, _)
Gcd(a, b) == IF b = 0 THEN a ELSE Gcd(b, a % b)

\* The quotient total / count of two small non-negative integers, kept as
\* a reduced fraction: equal quotients are equal values, as for floats.
Quotient(total, count) ==
    LET g == Gcd(total, count)
    IN  [num |-> total \div g, den |-> count \div g]

\* The float 0.0.
Zero == [num |-> 0, den |-> 1]

FracLess(x, y) == x.num * y.den < y.num * x.den

(***************************************************************************)
(* Instance labelling.                                                     *)
(***************************************************************************)
\* (provider, model_name), the key of Counter and per_model_counts.
ModelKey(m) == <<m.provider, m.model_name>>

\* Counter(...)[ModelKey(models[k])] over the whole list.
DuplicateCount(models, k) ==
    Cardinality({j \in 1..Len(models) : ModelKey(models[j]) = ModelKey(models[k])})

\* per_model_counts[key] once the loop has reached the k-th entry.
PerModelCount(models, k) ==
    Cardinality({j \in 1..k : ModelKey(models[j]) = ModelKey(models[k])})

\* create_run: the label of the k-th entry before disambiguation.
CreateRunCandidate(selected_models, k) ==
    LET model_config == selected_models[k]
        label == model_config.params.instance_label
    IN  IF Truthy(label) THEN label
        ELSE IF DuplicateCount(selected_models, k) > 1
             THEN model_config.model_name \o " #"
                    \o ToString(PerModelCount(selected_models, k))
             ELSE model_config.model_name

\* create_run: the label stored in params["instance_label"] of the k-th
\* entry; label_usage counts the candidates, not the disambiguated labels.
CreateRunLabel(selected_models, k) ==
    LET label == CreateRunCandidate(selected_models, k)
        usage == Cardinality({j \in 1..k :
                     CreateRunCandidate(selected_models, j) = label})
    IN  IF usage > 1 THEN label \o " #" \o ToString(usage) ELSE label

\* _compute_instance_labels: the label of the k-th model before
\* disambiguation.
InstanceCandidate(models, k) ==
    LET model == models[k]
        label == model.params.instance_label
    IN  IF Truthy(label) THEN label
        ELSE IF DuplicateCount(models, k) > 1
             THEN model.model_name \o " #" \o ToString(PerModelCount(models, k))
             ELSE model.model_name

\* _compute_instance_labels: label_map, as the sequence of labels in the
\* order of the models.
ComputeInstanceLabels(models) ==
    [k \in 1..Len(models) |->
        LET label == InstanceCandidate(models, k)
            usage == Cardinality({j \in 1..k : InstanceCandidate(models, j) = label})
        IN  IF usage > 1 THEN label \o " #" \o ToString(usage) ELSE label]

\* Mutant: the reviewer's label is always derived from its model name.
ReviewerCandidateByName(reviewer_models, k) == reviewer_models[k].model_name

\* run_evaluation: the label of the k-th explicit reviewer before
\* disambiguation.
ReviewerCandidate(reviewer_models, k) ==
    LET reviewer == reviewer_models[k]
        label == IF Truthy(reviewer.instance_label)
                 THEN reviewer.instance_label
                 ELSE reviewer.params.instance_label
    IN  IF Truthy(label) THEN label
        ELSE IF DuplicateCount(reviewer_models, k) > 1
             THEN reviewer.model_name \o " #"
                    \o ToString(PerModelCount(reviewer_models, k))
             ELSE reviewer.model_name

\* run_evaluation: the explicit reviewer list after labelling.
LabelReviewers(reviewer_models) ==
    [k \in 1..Len(reviewer_models) |->
        LET label == ReviewerCandidate(reviewer_models, k)
            usage == Cardinality({j \in 1..k :
                         ReviewerCandidate(reviewer_models, j) = label})
            final == IF usage > 1 THEN label \o " #" \o ToString(usage) ELSE label
        IN  [provider |-> reviewer_models[k].provider,
             model_name |-> reviewer_models[k].model_name,
             params |-> [instance_label |-> final],
             instance_label |-> final]]

\* run_evaluation: the default reviewers, the run's own selected models.
DefaultReviewers(models, instance_labels) ==
    [k \in 1..Len(models) |->
        [provider |-> models[k].provider,
         model_name |-> models[k].model_name,
         params |-> models[k].params,
         instance_label |-> instance_labels[k]]]

(***************************************************************************)
(* Blind labels.                                                           *)
(***************************************************************************)
Alphabet == <<"A", "B", "C", "D", "E", "F", "G", "H", "I", "J", "K", "L", "M",
              "N", "O", "P", "Q", "R", "S", "T", "U", "V", "W", "X", "Y", "Z">>

\* Mutant: past the end of the alphabet the letters start again.
BlindLabelWrapping(i) == Alphabet[(i % Len(Alphabet)) + 1]

\* labels[i] if i < len(labels) else f"Z{i - 25}", for the 0-based index i.
BlindLabel(i) ==
    IF i < Len(Alphabet) THEN Alphabet[i + 1] ELSE "Z" \o ToString(i - 25)

\* assign_labels: the same expression, written a second time in
\* EvaluationService.
AssignedLabel(i) ==
    IF i < Len(Alphabet) THEN Alphabet[i + 1] ELSE "Z" \o ToString(i - 25)

\* assign_labels(answers): every dict gets its "label" and the list is
\* returned in the order given.
AssignLabels(candidates) ==
    [k \in 1..Len(candidates) |->
        [producer_model |-> candidates[k].producer_model,
         text |-> candidates[k].text,
         label |-> AssignedLabel(k - 1)]]

(***************************************************************************)
(* EvaluationService: the label mapping.                                   *)
(***************************************************************************)
\* Mutant: the mapping is keyed by the first len(answers) letters instead of
\* the labels the answers carry.
GetLabelMappingByPosition(candidates) ==
    [l \in {Alphabet[i] : i \in 1..Len(candidates)} |->
        LET i == CHOOSE j \in 1..Len(candidates) : Alphabet[j] = l
        IN  candidates[i].provider \o ":" \o candidates[i].producer_model]

\* get_label_mapping: a dict comprehension, so of two answers with the same
\* label the later one supplies the value.
GetLabelMapping(candidates) ==
    [l \in {candidates[i].label : i \in 1..Len(candidates)} |->
        LET i == CHOOSE j \in 1..Len(candidates) :
                    /\ candidates[j].label = l
                    /\ \A h \in (j + 1)..Len(candidates) : candidates[h].label # l
        IN  candidates[i].provider \o ":" \o candidates[i].producer_model]

(***************************************************************************)
(* VotingService.aggregate_votes.                                          *)
(***************************************************************************)
\* scores.get(key, 0)
ScoreGet(scores, key) == IF key \in DOMAIN scores THEN scores[key] ELSE 0

\* Mutant: the label at a position is awarded n - position points.
RECURSIVE AwardBordaFromN(_, _, _)
AwardBordaFromN(borda_totals, rank_order, position) ==
    IF position >= Len(rank_order) THEN borda_totals
    ELSE LET label == rank_order[position + 1]
             n == Len(rank_order)
         IN  AwardBordaFromN(IF label \in DOMAIN borda_totals
                             THEN [borda_totals EXCEPT ![label] = @ + (n - position)]
                             ELSE borda_totals,
                             rank_order, position + 1)

\* for position, label in enumerate(rank_order): the Borda points.
RECURSIVE AwardBorda(_, _, _)
AwardBorda(borda_totals, rank_order, position) ==
    IF position >= Len(rank_order) THEN borda_totals
    ELSE LET label == rank_order[position + 1]
             n == Len(rank_order)
         IN  AwardBorda(IF label \in DOMAIN borda_totals
                        THEN [borda_totals EXCEPT ![label] = @ + (n - 1 - position)]
                        ELSE borda_totals,
                        rank_order, position + 1)

\* Mutant: the vote goes to the label ranked last.
AwardLastPlace(first_place_votes, rank_order) ==
    IF Len(rank_order) > 0 /\ rank_order[Len(rank_order)] \in DOMAIN first_place_votes
    THEN [first_place_votes EXCEPT ![rank_order[Len(rank_order)]] = @ + 1]
    ELSE first_place_votes

\* if rank_order and rank_order[0] in first_place_votes: the first place.
AwardFirstPlace(first_place_votes, rank_order) ==
    IF Len(rank_order) > 0 /\ rank_order[1] \in DOMAIN first_place_votes
    THEN [first_place_votes EXCEPT ![rank_order[1]] = @ + 1]
    ELSE first_place_votes

\* for answer_review in review.get("reviews", []): the score sums.
RECURSIVE CollectScores(_, _, _)
CollectScores(acc, answer_reviews, k) ==
    IF k > Len(answer_reviews) THEN acc
    ELSE LET answer_review == answer_reviews[k]
             label == answer_review.label
         IN  CollectScores(
                 IF Truthy(label) /\ label \in DOMAIN acc.score_sums
                 THEN [acc EXCEPT
                         !.score_sums[label] =
                             @ + ScoreGet(answer_review.scores, "overall"),
                         !.correctness_sums[label] =
                             @ + ScoreGet(answer_review.scores, "correctness"),
                         !.score_counts[label] = @ + 1]
                 ELSE acc,
                 answer_reviews, k + 1)

\* Mutant: only the ballots of reviewers of the provider openai are counted.
RECURSIVE CountOpenAIReviews(_, _, _)
CountOpenAIReviews(acc, reviews, k) ==
    IF k > Len(reviews) THEN acc
    ELSE LET review == reviews[k]
         IN  CountOpenAIReviews(
                 IF Len(review.rank_order) = 0 \/ review.reviewer_provider # "openai"
                 THEN acc
                 ELSE CollectScores(
                          [acc EXCEPT
                             !.borda_totals = AwardBorda(@, review.rank_order, 0),
                             !.first_place_votes =
                                 AwardFirstPlace(@, review.rank_order)],
                          review.reviews, 1),
                 reviews, k + 1)

\* for review in reviews: one pass of the loop; a review with an empty
\* rank_order is skipped whole, its scores included.
RECURSIVE CountReviews(_, _, _)
CountReviews(acc, reviews, k) ==
    IF k > Len(reviews) THEN acc
    ELSE LET review == reviews[k]
         IN  CountReviews(
                 IF Len(review.rank_order) = 0 THEN acc
                 ELSE CollectScores(
                          [acc EXCEPT
                             !.borda_totals = AwardBorda(@, review.rank_order, 0),
                             !.first_place_votes =
                                 AwardFirstPlace(@, review.rank_order)],
                          review.reviews, 1),
                 reviews, k + 1)

\* The totals after the loop over the reviews, all started at 0.
VoteTotals(reviews, all_labels) ==
    CountReviews([borda_totals |-> [l \in all_labels |-> 0],
                  first_place_votes |-> [l \in all_labels |-> 0],
                  score_sums |-> [l \in all_labels |-> 0],
                  score_counts |-> [l \in all_labels |-> 0],
                  correctness_sums |-> [l \in all_labels |-> 0]],
                 reviews, 1)

\* Mutant: the sum is not divided by the number of records.
SumAsAverage(sums, score_counts, label) ==
    IF score_counts[label] > 0 THEN Quotient(sums[label], 1) ELSE Zero

\* score_averages / correctness_averages: 0.0 for a label without scores.
Average(sums, score_counts, label) ==
    IF score_counts[label] > 0
    THEN Quotient(sums[label], score_counts[label])
    ELSE Zero

\* Mutant: the sort key is the Borda total alone.
KeyLessBordaOnly(x, y) == x[1] < y[1]

\* Comparison of the sort keys (borda, score average, correctness average).
KeyLess(x, y) ==
    \/ x[1] < y[1]
    \/ x[1] = y[1] /\ FracLess(x[2], y[2])
    \/ x[1] = y[1] /\ ~FracLess(y[2], x[2]) /\ ~FracLess(x[2], y[2])
         /\ FracLess(x[3], y[3])

\* sorted(items, key=..., reverse=True): descending and stable, so the
\* item at index i lands after every item with a greater key and after the
\* earlier items with an equal key.  Less compares two items by their keys.
SortedReverse(items, Less(_, _)) ==
    LET n == Len(items)
        place(i) ==
            Cardinality({j \in 1..n : Less(items[i], items[j])})
              + Cardinality({j \in 1..(i - 1) :
                    ~Less(items[j], items[i]) /\ ~Less(items[i], items[j])})
              + 1
    IN  [p \in 1..n |-> items[CHOOSE i \in 1..n : place(i) = p]]

\* The orders in which a Python set of these labels may be iterated.
SetOrders(all_labels) ==
    {order \in [1..Cardinality(all_labels) -> all_labels] :
        \A i, j \in DOMAIN order : i # j => order[i] # order[j]}

\* aggregate_votes, given the iteration order of the set all_labels.
AggregateVotes(reviews, label_to_model, order) ==
    LET all_labels == DOMAIN label_to_model
        t == VoteTotals(reviews, all_labels)
        score_averages ==
            [l \in all_labels |-> Average(t.score_sums, t.score_counts, l)]
        correctness_averages ==
            [l \in all_labels |-> Average(t.correctness_sums, t.score_counts, l)]
        key == [l \in all_labels |->
                   <<t.borda_totals[l], score_averages[l], correctness_averages[l]>>]
        Less(x, y) == KeyLess(key[x], key[y])
    IN  [final_ranking |-> SortedReverse(order, Less),
         borda_totals |-> t.borda_totals,
         first_place_votes |-> t.first_place_votes,
         score_averages |-> score_averages]

(***************************************************************************)
(* Inputs and adapter results the model draws from.                        *)
(***************************************************************************)
\* Entries of selected_models / reviewer_models as the API layer builds
\* them: no instance_label in params.  "lmstudio" has an adapter class but
\* no entry in the registry.
SelectableModels ==
    {[provider |-> "openai", model_name |-> "gpt-4o",
      params |-> [instance_label |-> None]],
     [provider |-> "lmstudio", model_name |-> "local-model",
      params |-> [instance_label |-> None]]}

ListsUpTo(n) == UNION {[1..m -> SelectableModels] : m \in 0..n}

ModelLists == ListsUpTo(MaxModels)

\* reviewer_models: None, or a list of reviewer dicts.
ReviewerInputs ==
    {<<>>} \cup
    {[k \in 1..Len(ms) |->
        [provider |-> ms[k].provider, model_name |-> ms[k].model_name,
         params |-> ms[k].params, instance_label |-> None]] :
        ms \in ListsUpTo(MaxReviewers)}

\* AnswerResult values an adapter returns: an answer, or a failure whose
\* error is str(e) of the exception caught, which may be the empty string.
AnswerResults ==
    {[text |-> "an answer", error |-> None],
     [text |-> "", error |-> "rate limited"],
     [text |-> "", error |-> ""]}

ScoredReviews ==
    <<[label |-> "A", scores |-> [overall |-> 6, correctness |-> 8]],
      [label |-> "B", scores |-> [overall |-> 9, correctness |-> 7]]>>

\* Parsed reviews as the model's JSON gave them: a score may be missing and
\* a record may have no label.
UnevenReviews ==
    <<[label |-> "A", scores |-> [overall |-> 6]],
      [label |-> None, scores |-> [overall |-> 9, correctness |-> 9]],
      [label |-> "B", scores |-> [overall |-> 6, correctness |-> 7]]>>

UnlabelledReviews ==
    <<[label |-> None, scores |-> [overall |-> 5, correctness |-> 5]]>>

\* ReviewResult values an adapter returns.
ReviewResults ==
    {[parsed_reviews |-> ScoredReviews, rank_order |-> <<"A", "B">>, error |-> None],
     [parsed_reviews |-> <<>>, rank_order |-> <<"B", "A">>, error |-> None],
     [parsed_reviews |-> UnevenReviews, rank_order |-> <<>>, error |-> None],
     [parsed_reviews |-> UnlabelledReviews, rank_order |-> <<>>, error |-> None],
     [parsed_reviews |-> <<>>, rank_order |-> <<>>, error |-> None],
     [parsed_reviews |-> <<>>, rank_order |-> <<>>, error |-> "rate limited"],
     [parsed_reviews |-> <<>>, rank_order |-> <<>>, error |-> ""]}

(***************************************************************************)
(* The fan-out: one task per model or reviewer, under one semaphore.       *)
(***************************************************************************)
\* A task that has not yet entered "async with semaphore".
NewTask == [st |-> "waiting", log |-> <<>>, exc |-> None, prompt |-> <<>>]

NoTasks == <<>>

Waiting(i) == tasks[i].st = "waiting"
Running(i) == tasks[i].st = "running"
Done(i) == tasks[i].st = "done"

\* Number of adapter calls in flight.
InFlight == Cardinality({i \in DOMAIN tasks : Running(i)})

\* Mutant: the barrier opens once every task has a first result, while
\* retries may still be in flight.
GatherAfterFirstResults ==
    \A i \in DOMAIN tasks : tasks[i].exc # None \/ Len(tasks[i].log) > 0

\* await asyncio.gather(*tasks, return_exceptions=True) returns: every task
\* has finished.
AllDone == \A i \in DOMAIN tasks : Done(i)

\* Mutant: the semaphore admits a task whatever its value.
AlwaysAcquire(value) == TRUE

\* Mutant: the semaphore admits one task more than its size.
AcquireWithSpare(value) == value >= 0

\* asyncio.Semaphore.acquire does not block while the value is positive.
CanAcquire(value) == value > 0

\* Tasks are started in list order and the semaphore wakes its waiters in
\* FIFO order, so a task enters after every task before it.
NextToEnter(i) == Waiting(i) /\ \A j \in 1..(i - 1) : ~Waiting(j)

\* isinstance(result, Exception): the task raised.
Raised(task) == task.exc # None

\* The value a finished task returned: the result of its last adapter call.
LastResult(task) == task.log[Len(task.log)]

(***************************************************************************)
(* History of the latest invocation.                                       *)
(***************************************************************************)
NoCall ==
    [op |-> "none", run_id |-> 0, outcome |-> "none", error |-> None,
     n_answers |-> 0, n_reviews |-> 0, n_aggregation |-> 0,
     attempted |-> 0, errored |-> 0, adapter_calls |-> 0]

\* The invocation op has been entered; the row counts are those it found.
Entered(op) ==
    [NoCall EXCEPT !.op = op, !.outcome = "running",
                   !.n_answers = Len(db_answers),
                   !.n_reviews = Len(db_reviews),
                   !.n_aggregation = Len(db_aggregation)]

\* The invocation op has been entered with the run id it was given.
EnteredOn(op, run_id) == [Entered(op) EXCEPT !.run_id = run_id]

Returned(call) == [call EXCEPT !.outcome = "returned"]

RaisedError(call, error) == [call EXCEPT !.outcome = "raised", !.error = error]

\* An adapter call (generate_answer or generate_review) has been started.
AdapterCalled(call) == [call EXCEPT !.adapter_calls = @ + 1]

NotFound == "Run not found"
NeedTwoAnswers == "Need at least 2 successful answers to evaluate"
NoValidReviews == "No valid reviews returned"
SomeReviewersFailed == "Some reviewers failed"
IntegrityError == "IntegrityError: UNIQUE constraint failed: aggregation_results.run_id"

\* No invocation has been refused since the latest one that went ahead.
NoRefusal == [op |-> "none", run_id |-> 0, error |-> None]

\* The invocation op raised error before touching the store.
Refusal(op, run_id, error) == [op |-> op, run_id |-> run_id, error |-> error]

(***************************************************************************)
(* Initial state: an empty store, no invocation in progress.               *)
(***************************************************************************)
\* No labelling function is being followed on its own.
NoLabelling ==
    /\ model_list = <<>>
    /\ label_map = <<>>
    /\ applied = <<>>

\* aggregate_votes is not being followed on its own.
NoVoting ==
    /\ vote_reviews = <<>>
    /\ vote_labels = <<>>
    /\ set_order = <<>>
    /\ outputs = <<>>

\* assign_labels is not being followed on its own.
NoAssigning ==
    /\ assign_input = <<>>
    /\ assign_output = <<>>

\* No invocations are being followed side by side.
NoInvocations == invocations = <<>>

Init ==
    /\ max_concurrency \in 1..MaxConcurrency
    /\ db_run = FALSE
    /\ db_status = None
    /\ db_models = <<>>
    /\ db_answers = <<>>
    /\ db_reviews = <<>>
    /\ db_aggregation = <<>>
    /\ pc = "idle"
    /\ tasks = NoTasks
    /\ semaphore = 0
    /\ answers = <<>>
    /\ reviewers = <<>>
    /\ completed = <<>>
    /\ calls = 0
    /\ last = NoCall
    /\ refused = NoRefusal
    /\ NoLabelling
    /\ NoVoting
    /\ NoAssigning
    /\ NoInvocations

(***************************************************************************)
(* create_run                                                              *)
(***************************************************************************)
\* The SelectedModelORM rows create_run inserts.
SelectedRows(selected_models) ==
    [k \in 1..Len(selected_models) |->
        [provider |-> selected_models[k].provider,
         model_name |-> selected_models[k].model_name,
         params |-> [instance_label |-> CreateRunLabel(selected_models, k)]]]

CreateRun(selected_models) ==
    /\ pc = "idle"
    /\ ~db_run
    /\ db_run' = TRUE
    /\ db_status' = PENDING
    /\ db_models' = SelectedRows(selected_models)
    /\ last' = Returned(Entered("create_run"))
    /\ refused' = NoRefusal
    /\ UNCHANGED <<labelVars, voteVars, assignVars, processVars,
                   max_concurrency, db_answers, db_reviews, db_aggregation, pc,
                   tasks, semaphore, answers, reviewers, completed, calls>>

(***************************************************************************)
(* generate_answers                                                        *)
(***************************************************************************)
\* The run ids a caller passes: the id create_run gives the run (the first
\* row of the table) and an id that no run has.
RunIds == {1, 2}

\* Mutant: the lookup returns the run whatever id was asked for.
GetRunIgnoresId(run_id) == db_run

\* get_run(run_id) is not None: the row WHERE id = run_id exists.
GetRun(run_id) == db_run /\ run_id = 1

\* get_run returned None: raise ValueError before anything is written.
GenerateAnswersNotFound(run_id) ==
    /\ pc = "idle"
    /\ ~GetRun(run_id)
    /\ refused' = Refusal("generate_answers", run_id, NotFound)
    /\ UNCHANGED <<labelVars, voteVars, assignVars, processVars,
                   max_concurrency, db_run, db_status, db_models, db_answers,
                   db_reviews, db_aggregation, pc, tasks, semaphore, answers,
                   reviewers, completed, calls, last>>

\* Mutant: generate_answers marks the run FAILED on entry.
GenerationEntryFailed(status) == FAILED

\* The status written and committed on entry.
GenerateAnswersEntryStatus(status) == GENERATING_ANSWERS

\* Entry up to the gather: the status is committed and one task per selected
\* model is created under a new semaphore.
GenerateAnswersEnter(run_id) ==
    /\ pc = "idle"
    /\ GetRun(run_id)
    /\ calls < MaxCalls
    /\ db_status' = GenerateAnswersEntryStatus(db_status)
    /\ tasks' = [i \in 1..Len(db_models) |-> NewTask]
    /\ semaphore' = max_concurrency
    /\ completed' = <<>>
    /\ pc' = "generate_answers"
    /\ calls' = calls + 1
    /\ last' = EnteredOn("generate_answers", run_id)
    /\ refused' = NoRefusal
    /\ UNCHANGED <<labelVars, voteVars, assignVars, processVars,
                   max_concurrency, db_run, db_models, db_answers, db_reviews,
                   db_aggregation, answers, reviewers>>

\* generate_one enters the semaphore; get_adapter either raises, which
\* leaves the block at once, or the adapter call starts.
GenerateOneEnter(i) ==
    /\ pc = "generate_answers"
    /\ i \in DOMAIN tasks
    /\ NextToEnter(i)
    /\ CanAcquire(semaphore)
    /\ IF GetAdapterRaises(db_models[i].provider)
       THEN /\ tasks' = [tasks EXCEPT ![i] =
                           [@ EXCEPT !.st = "done",
                                     !.exc = UnknownProvider(db_models[i].provider)]]
            /\ completed' = Append(completed, i)
            /\ UNCHANGED semaphore
       ELSE /\ tasks' = [tasks EXCEPT ![i] = [@ EXCEPT !.st = "running"]]
            /\ semaphore' = semaphore - 1
            /\ UNCHANGED completed
    /\ last' = IF GetAdapterRaises(db_models[i].provider) THEN last ELSE AdapterCalled(last)
    /\ UNCHANGED <<labelVars, voteVars, assignVars, processVars, refused,
                   max_concurrency, db_run, db_status, db_models, db_answers,
                   db_reviews, db_aggregation, pc, answers, reviewers, calls>>

\* The adapter call of generate_one returns; the task leaves the semaphore.
GenerateOneReturn(i, result) ==
    /\ pc = "generate_answers"
    /\ i \in DOMAIN tasks
    /\ Running(i)
    /\ tasks' = [tasks EXCEPT ![i] =
                    [@ EXCEPT !.st = "done", !.log = Append(@, result)]]
    /\ semaphore' = semaphore + 1
    /\ completed' = Append(completed, i)
    /\ UNCHANGED <<labelVars, voteVars, assignVars, processVars, refused,
                   max_concurrency, db_run, db_status, db_models, db_answers,
                   db_reviews, db_aggregation, pc, answers, reviewers, calls, last>>

\* Mutant: an exception becomes an answer without an error message.
AnswerResultWithoutMessage(task) ==
    IF Raised(task) THEN [text |-> "", error |-> None] ELSE LastResult(task)

\* The AnswerResult of the i-th gathered result: an exception becomes a
\* failed answer carrying str(exception).
AnswerResultOf(task) ==
    IF Raised(task) THEN [text |-> "", error |-> task.exc] ELSE LastResult(task)

\* Mutant: the results are taken in completion order (as_completed), not in
\* the order of the tasks.
CompletionOrderResult(i) == tasks[completed[i]]

\* results[i], the result gathered for the i-th selected model.
GatheredResult(i) == tasks[i]

\* Mutant: a task that raised leaves no Answer row.
NewAnswersWithoutRaised(models, instance_labels) ==
    LET kept == SelectSeq([k \in 1..Len(models) |-> k],
                          LAMBDA k : ~Raised(GatheredResult(k)))
    IN  [j \in 1..Len(kept) |->
            [producer_model |-> instance_labels[kept[j]],
             provider |-> models[kept[j]].provider,
             label |-> BlindLabel(j - 1),
             text |-> LastResult(GatheredResult(kept[j])).text,
             error |-> LastResult(GatheredResult(kept[j])).error]]

\* for i, (model_config, result) in enumerate(zip(...)): the AnswerORM rows.
NewAnswers(models, instance_labels) ==
    [k \in 1..Len(models) |->
        LET answer_result == AnswerResultOf(GatheredResult(k))
        IN  [producer_model |-> instance_labels[k],
             provider |-> models[k].provider,
             label |-> BlindLabel(k - 1),
             text |-> answer_result.text,
             error |-> answer_result.error]]

\* Mutant: the new answers replace the ones the run had.
ReplaceAnswers(rows, answer_rows) == answer_rows

\* The answers table after the commit: every AnswerORM is added with
\* self.db.add, and nothing is deleted.
AnswersAfterGeneration(rows, answer_rows) == rows \o answer_rows

\* Mutant: generating answers again discards the reviews of the earlier ones.
DiscardReviews(rows) == <<>>

\* The reviews table after generate_answers: the session holds the new
\* AnswerORM objects and the status only, and no statement touches a Review.
ReviewsAfterGeneration(rows) == rows

\* After the gather: one Answer per selected model and ANSWERS_COMPLETE,
\* in one commit.
GenerateAnswersFinish ==
    /\ pc = "generate_answers"
    /\ AllDone
    /\ db_answers' = AnswersAfterGeneration(db_answers,
                          NewAnswers(db_models, ComputeInstanceLabels(db_models)))
    /\ db_status' = ANSWERS_COMPLETE
    /\ pc' = "idle"
    /\ tasks' = NoTasks
    /\ semaphore' = 0
    /\ last' = Returned(last)
    /\ db_reviews' = ReviewsAfterGeneration(db_reviews)
    /\ UNCHANGED <<labelVars, voteVars, assignVars, processVars, refused,
                   max_concurrency, db_run, db_models, db_aggregation,
                   answers, reviewers, completed, calls>>

(***************************************************************************)
(* run_evaluation                                                          *)
(***************************************************************************)
\* get_run returned None: raise ValueError before anything is written.
RunEvaluationNotFound(run_id) ==
    /\ pc = "idle"
    /\ ~GetRun(run_id)
    /\ refused' = Refusal("run_evaluation", run_id, NotFound)
    /\ UNCHANGED <<labelVars, voteVars, assignVars, processVars,
                   max_concurrency, db_run, db_status, db_models, db_answers,
                   db_reviews, db_aggregation, pc, tasks, semaphore, answers,
                   reviewers, completed, calls, last>>

\* Mutant: the entry of run_evaluation leaves the status as it is.
KeepStatus(status) == status

\* The status written and committed on entry.
RunEvaluationEntryStatus(status) == EVALUATING

\* Entry: the status EVALUATING is committed.
RunEvaluationEnter(run_id, reviewer_models) ==
    /\ pc = "idle"
    /\ GetRun(run_id)
    /\ calls < MaxCalls
    /\ db_status' = RunEvaluationEntryStatus(db_status)
    /\ reviewers' = reviewer_models
    /\ pc' = "evaluation_gate"
    /\ calls' = calls + 1
    /\ last' = EnteredOn("run_evaluation", run_id)
    /\ refused' = NoRefusal
    /\ UNCHANGED <<labelVars, voteVars, assignVars, processVars,
                   max_concurrency, db_run, db_models, db_answers, db_reviews,
                   db_aggregation, tasks, semaphore, answers, completed>>

\* Mutant: the errored answers are candidates too.
AllAnswers(rows) == rows

\* [... for a in run.answers if not a.error]: the candidate answers.
SuccessfulAnswers(rows) == SelectSeq(rows, LAMBDA a : ~Truthy(a.error))

\* if len(answers) < 2
TooFewAnswers(candidates) == Len(candidates) < 2

\* The reviewer list: the explicit one, labelled, or the selected models.
ReviewersOf(reviewer_models, models) ==
    IF Len(reviewer_models) > 0
    THEN LabelReviewers(reviewer_models)
    ELSE DefaultReviewers(models, ComputeInstanceLabels(models))

\* The gate on the candidate answers, then the fan-out of the reviews.
RunEvaluationGate ==
    /\ pc = "evaluation_gate"
    /\ LET candidates == SuccessfulAnswers(db_answers)
       IN  IF TooFewAnswers(candidates)
           THEN /\ db_status' = FAILED
                /\ last' = RaisedError(last, NeedTwoAnswers)
                /\ pc' = "idle"
                /\ reviewers' = <<>>
                /\ UNCHANGED <<tasks, semaphore, answers>>
           ELSE /\ answers' = candidates
                /\ reviewers' = ReviewersOf(reviewers, db_models)
                /\ tasks' = [i \in 1..Len(reviewers') |-> NewTask]
                /\ semaphore' = max_concurrency
                /\ pc' = "run_evaluation"
                /\ last' = [last EXCEPT !.attempted = Len(reviewers')]
                /\ UNCHANGED db_status
    /\ UNCHANGED <<labelVars, voteVars, assignVars, processVars, refused,
                   max_concurrency, db_run, db_models, db_answers, db_reviews,
                   db_aggregation, completed, calls>>

\* build_review_prompt: the answers section, one "### Answer {label}"
\* heading followed by the text for every answer whose label is not
\* exclude_label, in the order of the list.
BuildReviewPrompt(candidates, exclude_label) ==
    LET filtered_answers == SelectSeq(candidates, LAMBDA a : a.label # exclude_label)
    IN  [k \in 1..Len(filtered_answers) |->
            [heading |-> "### Answer " \o filtered_answers[k].label,
             body |-> filtered_answers[k].text]]

\* Mutant: the reviewer's own answer is excluded from its prompt.
ExcludeOwnAnswer(reviewer, candidates) ==
    LET own == {k \in 1..Len(candidates) :
                   candidates[k].producer_model = reviewer.instance_label}
    IN  IF own = {} THEN None ELSE candidates[CHOOSE k \in own : TRUE].label

\* exclude_label=None: no answer is excluded, whoever the reviewer is.
ExcludeLabel(reviewer, candidates) == None

\* review_one enters the semaphore; get_adapter either raises, which leaves
\* the block at once, or the first generate_review call starts.
ReviewOneEnter(i) ==
    /\ pc = "run_evaluation"
    /\ i \in DOMAIN tasks
    /\ NextToEnter(i)
    /\ CanAcquire(semaphore)
    /\ IF GetAdapterRaises(reviewers[i].provider)
       THEN /\ tasks' = [tasks EXCEPT ![i] =
                           [@ EXCEPT !.st = "done",
                                     !.exc = UnknownProvider(reviewers[i].provider)]]
            /\ UNCHANGED semaphore
       ELSE /\ tasks' = [tasks EXCEPT ![i] =
                           [@ EXCEPT !.st = "running",
                                     !.prompt = BuildReviewPrompt(answers,
                                                    ExcludeLabel(reviewers[i], answers))]]
            /\ semaphore' = semaphore - 1
    /\ last' = IF GetAdapterRaises(reviewers[i].provider) THEN last ELSE AdapterCalled(last)
    /\ UNCHANGED <<labelVars, voteVars, assignVars, processVars, refused,
                   max_concurrency, db_run, db_status, db_models, db_answers,
                   db_reviews, db_aggregation, pc, answers, reviewers, completed,
                   calls>>

\* Mutant: the loop stops one attempt early.
RetryOffByOne(result, attempts_made) ==
    Truthy(result.error) /\ attempts_made < max_review_attempts - 1

\* The loop over range(max_review_attempts) goes round again: the result
\* carries an error and an attempt is left.
RetryReview(result, attempts_made) ==
    Truthy(result.error) /\ attempts_made < max_review_attempts

\* Mutant: the slot is never given back.
SlotNeverReleased(value, retrying) == value

\* Mutant: the slot is given back after every attempt, retry or not.
ReleaseAfterEveryAttempt(value, retrying) == value + 1

\* The semaphore once a generate_review call has returned: "async with
\* semaphore" encloses the whole retry loop, so the slot is given back only
\* when no further attempt follows.
SemaphoreAfterAttempt(value, retrying) ==
    IF retrying THEN value ELSE value + 1

\* A generate_review call returns: either the next attempt starts inside the
\* same semaphore block, or the task ends and leaves the semaphore.
ReviewOneReturn(i, result) ==
    /\ pc = "run_evaluation"
    /\ i \in DOMAIN tasks
    /\ Running(i)
    /\ LET log == Append(tasks[i].log, result)
       IN  /\ semaphore' = SemaphoreAfterAttempt(semaphore, RetryReview(result, Len(log)))
           /\ IF RetryReview(result, Len(log))
              THEN /\ tasks' = [tasks EXCEPT ![i] = [@ EXCEPT !.log = log]]
                   /\ last' = AdapterCalled(last)
              ELSE /\ tasks' = [tasks EXCEPT ![i] =
                                  [@ EXCEPT !.st = "done", !.log = log]]
                   /\ UNCHANGED last
    /\ UNCHANGED <<labelVars, voteVars, assignVars, processVars, refused,
                   max_concurrency, db_run, db_status, db_models, db_answers,
                   db_reviews, db_aggregation, pc, answers, reviewers, completed,
                   calls>>

\* Mutant: the score-derived ranking compares the overall score alone.
ScoreLessOverallOnly(x, y) ==
    ScoreGet(x.scores, "overall") < ScoreGet(y.scores, "overall")

\* The key of the score-derived ranking: (overall, correctness), missing
\* scores counting as 0.
ScoreLess(x, y) ==
    LET xo == ScoreGet(x.scores, "overall")
        yo == ScoreGet(y.scores, "overall")
    IN  \/ xo < yo
        \/ xo = yo /\ ScoreGet(x.scores, "correctness") < ScoreGet(y.scores, "correctness")

\* [r.get("label") for r in ranked if r.get("label")]
RankedLabels(ranked) ==
    LET kept == SelectSeq(ranked, LAMBDA r : Truthy(r.label))
    IN  [k \in 1..Len(kept) |-> kept[k].label]

\* rank_order after the derivation from the scores.
DerivedRankOrder(review_result) ==
    IF Len(review_result.rank_order) = 0 /\ Len(review_result.parsed_reviews) > 0
    THEN RankedLabels(SortedReverse(review_result.parsed_reviews, ScoreLess))
    ELSE review_result.rank_order

\* Mutant: there is no fallback, a result without a ranking is discarded.
NoFallbackLabels(candidates) == <<>>

\* Mutant: the fallback lists the labels from the last answer to the first.
FallbackLabelsReversed(candidates) ==
    LET kept == SelectSeq(candidates, LAMBDA a : Truthy(a.label))
    IN  [k \in 1..Len(kept) |-> kept[Len(kept) + 1 - k].label]

\* [a["label"] for a in answers if a.get("label")]
FallbackLabels(candidates) ==
    LET kept == SelectSeq(candidates, LAMBDA a : Truthy(a.label))
    IN  [k \in 1..Len(kept) |-> kept[k].label]

\* rank_order after the fallback; empty when the review is to be skipped.
FinalRankOrder(review_result, candidates) ==
    LET rank_order == DerivedRankOrder(review_result)
    IN  IF Len(rank_order) > 0 THEN rank_order
        ELSE IF Len(FallbackLabels(candidates)) >= 2
             THEN FallbackLabels(candidates)
             ELSE <<>>

\* Mutant: a final result carrying an error is processed like any other.
ResultFailedNever(review_result) == FALSE

\* if review_result.error: the reviewer's final result is a failure.
ResultFailed(review_result) == Truthy(review_result.error)

\* The task of a reviewer yields a Review row.
Usable(task, candidates) ==
    /\ ~Raised(task)
    /\ ~ResultFailed(LastResult(task))
    /\ Len(FinalRankOrder(LastResult(task), candidates)) > 0

\* reviewer.get("instance_label") or params.get("instance_label") or model_name
ReviewerLabel(reviewer) ==
    IF Truthy(reviewer.instance_label) THEN reviewer.instance_label
    ELSE IF Truthy(reviewer.params.instance_label)
         THEN reviewer.params.instance_label
         ELSE reviewer.model_name

\* The ReviewORM row of a usable result (review_data holds the same fields).
ReviewRow(reviewer, review_result, candidates) ==
    [reviewer_model |-> ReviewerLabel(reviewer),
     reviewer_provider |-> reviewer.provider,
     reviews |-> review_result.parsed_reviews,
     rank_order |-> FinalRankOrder(review_result, candidates)]

\* for result in results: the rows added, in the order of the tasks.
RECURSIVE NewReviews(_)
NewReviews(k) ==
    IF k = 0 THEN <<>>
    ELSE IF Usable(tasks[k], answers)
         THEN Append(NewReviews(k - 1),
                     ReviewRow(reviewers[k], LastResult(tasks[k]), answers))
         ELSE NewReviews(k - 1)

\* Mutant: the evaluation fails only when no review at all is usable.
EvaluationFailedOnlyIfEmpty(review_data, reviewer_list) == Len(review_data) = 0

\* if not review_data or len(review_data) < len(reviewers)
EvaluationFailed(review_data, reviewer_list) ==
    Len(review_data) = 0 \/ Len(review_data) < Len(reviewer_list)

\* History: the reviewers whose task raised or whose last result carries an
\* error message.
ErroredReviewers ==
    Cardinality({i \in DOMAIN tasks :
        Raised(tasks[i]) \/ Truthy(LastResult(tasks[i]).error)})

\* Mutant: the table has no unique constraint on run_id.
NoUniqueConstraint(rows) == TRUE

\* aggregation_results.run_id is unique: a second row for the run is refused.
UniqueRunId(rows) == Len(rows) = 0

\* The AggregationResultORM row.
AggregationRow(aggregation) ==
    [final_ranking |-> aggregation.final_ranking,
     vote_breakdown |-> [borda_totals |-> aggregation.borda_totals,
                         first_place_votes |-> aggregation.first_place_votes,
                         score_averages |-> aggregation.score_averages],
     method_version |-> "borda_v1"]

\* What the end of run_evaluation leaves in the invocation's variables.
EvaluationEnds ==
    /\ pc' = "idle"
    /\ tasks' = NoTasks
    /\ semaphore' = 0
    /\ answers' = <<>>
    /\ reviewers' = <<>>
    /\ UNCHANGED <<labelVars, voteVars, assignVars, processVars, refused,
                   max_concurrency, db_run, db_models, db_answers, completed,
                   calls>>

\* Mutant: the failure rolls the flushed Review rows back.
RolledBackAtFailure(rows, review_rows) == rows

\* The reviews table after the commit of the failure path: the rows added to
\* the session and flushed are committed together with FAILED.
CommittedWithFailure(rows, review_rows) == rows \o review_rows

\* Some reviewer gave no usable review: the reviews made are committed with
\* FAILED and ValueError is raised.
RunEvaluationFail ==
    /\ pc = "run_evaluation"
    /\ AllDone
    /\ EvaluationFailed(NewReviews(Len(tasks)), reviewers)
    /\ db_reviews' = CommittedWithFailure(db_reviews, NewReviews(Len(tasks)))
    /\ db_status' = FAILED
    /\ UNCHANGED db_aggregation
    /\ last' = [RaisedError(last, IF Len(NewReviews(Len(tasks))) = 0
                                  THEN NoValidReviews ELSE SomeReviewersFailed)
                  EXCEPT !.errored = ErroredReviewers]
    /\ EvaluationEnds

\* Every reviewer gave a usable review: the reviews, the aggregation and
\* COMPLETE are committed together.
RunEvaluationComplete ==
    /\ pc = "run_evaluation"
    /\ AllDone
    /\ ~EvaluationFailed(NewReviews(Len(tasks)), reviewers)
    /\ UniqueRunId(db_aggregation)
    /\ db_reviews' = db_reviews \o NewReviews(Len(tasks))
    /\ \E order \in SetOrders(DOMAIN GetLabelMapping(answers)) :
          db_aggregation' = Append(db_aggregation,
              AggregationRow(AggregateVotes(NewReviews(Len(tasks)),
                                            GetLabelMapping(answers), order)))
    /\ db_status' = COMPLETE
    /\ last' = [Returned(last) EXCEPT !.errored = ErroredReviewers]
    /\ EvaluationEnds

\* Every reviewer gave a usable review but the run already has an
\* aggregation: the INSERT violates the unique constraint, the commit raises
\* and its transaction (reviews, aggregation, COMPLETE) is rolled back.
RunEvaluationConflict ==
    /\ pc = "run_evaluation"
    /\ AllDone
    /\ ~EvaluationFailed(NewReviews(Len(tasks)), reviewers)
    /\ ~UniqueRunId(db_aggregation)
    /\ UNCHANGED <<db_reviews, db_aggregation, db_status>>
    /\ last' = [RaisedError(last, IntegrityError) EXCEPT !.errored = ErroredReviewers]
    /\ EvaluationEnds

(***************************************************************************)
(* The specification: sequential use of the operations on one run.         *)
(***************************************************************************)
Next ==
    \/ \E selected_models \in ModelLists : CreateRun(selected_models)
    \/ \E run_id \in RunIds : GenerateAnswersNotFound(run_id)
    \/ \E run_id \in RunIds : GenerateAnswersEnter(run_id)
    \/ \E i \in 1..MaxModels : GenerateOneEnter(i)
    \/ \E i \in 1..MaxModels, result \in AnswerResults : GenerateOneReturn(i, result)
    \/ GenerateAnswersFinish
    \/ \E run_id \in RunIds : RunEvaluationNotFound(run_id)
    \/ \E run_id \in RunIds, reviewer_models \in ReviewerInputs :
          RunEvaluationEnter(run_id, reviewer_models)
    \/ RunEvaluationGate
    \/ \E i \in 1..MaxModels : ReviewOneEnter(i)
    \/ \E i \in 1..MaxModels, result \in ReviewResults : ReviewOneReturn(i, result)
    \/ RunEvaluationFail
    \/ RunEvaluationComplete
    \/ RunEvaluationConflict

Spec == Init /\ [][Next]_vars

(***************************************************************************)
(* Termination: the same operations on the run, followed with the results  *)
(* that decide how an invocation proceeds (an answer or an error message,  *)
(* a ranked review or an error message), under the scheduling of asyncio.  *)
(***************************************************************************)
\* An answer, and a failure with a message.
FairAnswerResults == {r \in AnswerResults : r.error # ""}

\* A scored and ranked review, and a failure with a message (which is retried).
FairReviewResults ==
    {r \in ReviewResults : r.parsed_reviews = ScoredReviews \/ r.error = "rate limited"}

FairNext ==
    \/ \E selected_models \in ModelLists : CreateRun(selected_models)
    \/ GenerateAnswersEnter(1)
    \/ \E i \in 1..MaxModels : GenerateOneEnter(i)
    \/ \E i \in 1..MaxModels, result \in FairAnswerResults : GenerateOneReturn(i, result)
    \/ GenerateAnswersFinish
    \/ \E reviewer_models \in ReviewerInputs : RunEvaluationEnter(1, reviewer_models)
    \/ RunEvaluationGate
    \/ \E i \in 1..MaxModels : ReviewOneEnter(i)
    \/ \E i \in 1..MaxModels, result \in FairReviewResults : ReviewOneReturn(i, result)
    \/ RunEvaluationFail
    \/ RunEvaluationComplete
    \/ RunEvaluationConflict

\* The step run_evaluation takes once its gather has returned: whichever of
\* its three endings applies, it is the one step that leaves the evaluation.
AfterReviewsGathered ==
    /\ pc = "run_evaluation"
    /\ AllDone
    /\ pc' = "idle"

\* Every adapter call returns, and the event loop keeps running the
\* coroutines that can run: a task that can enter the semaphore does, and the
\* orchestrating coroutine goes on once its gather has returned.  Callers are
\* not obliged to invoke anything.
Fairness ==
    /\ WF_vars(\E i \in 1..MaxModels : GenerateOneEnter(i))
    /\ WF_vars(\E i \in 1..MaxModels, result \in FairAnswerResults :
                  GenerateOneReturn(i, result))
    /\ WF_vars(GenerateAnswersFinish)
    /\ WF_vars(RunEvaluationGate)
    /\ WF_vars(\E i \in 1..MaxModels : ReviewOneEnter(i))
    /\ WF_vars(\E i \in 1..MaxModels, result \in FairReviewResults :
                  ReviewOneReturn(i, result))
    /\ WF_pc(AfterReviewsGathered)

FairSpec == Init /\ [][FairNext]_vars /\ Fairness

(***************************************************************************)
(* Instance labelling on its own: create_run's inline labelling and        *)
(* _compute_instance_labels applied to arbitrary model lists, explicit     *)
(* labels included.                                                        *)
(***************************************************************************)
\* No run is being followed.
NoRun ==
    /\ max_concurrency = 1
    /\ db_run = FALSE
    /\ db_status = None
    /\ db_models = <<>>
    /\ db_answers = <<>>
    /\ db_reviews = <<>>
    /\ db_aggregation = <<>>
    /\ pc = "idle"
    /\ tasks = NoTasks
    /\ semaphore = 0
    /\ answers = <<>>
    /\ reviewers = <<>>
    /\ completed = <<>>
    /\ calls = 0
    /\ last = NoCall
    /\ refused = NoRefusal

\* Model entries as a caller of the orchestrator may pass them: two
\* providers, a model name that looks like a derived label, and params with
\* or without an explicit instance_label.
LabelledModels ==
    {[provider |-> provider, model_name |-> model_name,
      params |-> [instance_label |-> instance_label]] :
        provider \in {"openai", "anthropic"},
        model_name \in {"gpt-4o", "gpt-4o #2"},
        instance_label \in {None, "gpt-4o", "gpt-4o #2"}}

LabelLists == UNION {[1..m -> LabelledModels] : m \in 0..MaxLabelled}

LabelInit ==
    /\ NoRun
    /\ NoVoting
    /\ NoAssigning
    /\ NoInvocations
    /\ model_list \in LabelLists
    /\ label_map = <<>>
    /\ applied = <<>>

\* create_run's labelling loop: the labels, and the rows that carry them.
ApplyCreateRun ==
    /\ applied = <<>>
    /\ label_map' = [k \in 1..Len(model_list) |-> CreateRunLabel(model_list, k)]
    /\ model_list' = SelectedRows(model_list)
    /\ applied' = <<"create_run">>
    /\ UNCHANGED <<runVars, voteVars, assignVars, processVars>>

\* _compute_instance_labels: label_map is returned and every label is
\* written back into the params of its model.
ApplyComputeInstanceLabels ==
    /\ Len(applied) < MaxApplications
    /\ label_map' = ComputeInstanceLabels(model_list)
    /\ model_list' = [k \in 1..Len(model_list) |->
                         [model_list[k] EXCEPT !.params.instance_label =
                             ComputeInstanceLabels(model_list)[k]]]
    /\ applied' = Append(applied, "_compute_instance_labels")
    /\ UNCHANGED <<runVars, voteVars, assignVars, processVars>>

LabelNext ==
    \/ ApplyCreateRun
    \/ ApplyComputeInstanceLabels

LabelSpec == LabelInit /\ [][LabelNext]_vars

(***************************************************************************)
(* aggregate_votes on its own: arbitrary reviews over a universe of        *)
(* labels, invoked more than once on the same input.                       *)
(***************************************************************************)
\* label_to_model arguments: universes of two and of three labels.
VoteUniverses ==
    {[l \in labels |-> "openai:gpt-4o " \o l] :
        labels \in {{"A", "B"}, {"A", "B", "C"}}}

\* rank_order values: empty, complete, with a repeated label, with a label
\* that is outside the two-label universe, and longer than that universe.
RankOrders == {<<>>, <<"A", "B">>, <<"B", "A">>, <<"A", "A">>, <<"C", "A">>,
               <<"A", "C", "B">>}

OutsideReviews ==
    <<[label |-> "C", scores |-> [overall |-> 4, correctness |-> 4]],
      [label |-> "A", scores |-> [correctness |-> 3]]>>

\* The "reviews" lists of score records.
ScoreLists == {<<>>, ScoredReviews, UnevenReviews, OutsideReviews}

\* The review dicts aggregate_votes may be given.
VoteReviews ==
    {[rank_order |-> rank_order, reviews |-> score_list] :
        rank_order \in RankOrders, score_list \in ScoreLists}

VoteReviewLists == UNION {[1..m -> VoteReviews] : m \in 0..MaxVoteReviews}

VoteInit ==
    /\ NoRun
    /\ NoLabelling
    /\ NoAssigning
    /\ NoInvocations
    /\ vote_reviews \in VoteReviewLists
    /\ vote_labels \in VoteUniverses
    /\ set_order \in SetOrders(DOMAIN vote_labels)
    /\ outputs = <<>>

\* The reviewer_model and reviewer_provider keys of a review dict.
ReviewerFields ==
    {[reviewer_model |-> "gpt-4o", reviewer_provider |-> "openai"],
     [reviewer_model |-> "claude", reviewer_provider |-> "anthropic"]}

\* The review dicts as aggregate_votes receives them: each with the keys of
\* its reviewer next to its rank_order and reviews.
ReviewData(ballots, reviewer_list) ==
    [k \in 1..Len(ballots) |->
        [reviewer_model |-> reviewer_list[k].reviewer_model,
         reviewer_provider |-> reviewer_list[k].reviewer_provider,
         rank_order |-> ballots[k].rank_order,
         reviews |-> ballots[k].reviews]]

\* One invocation of aggregate_votes in the running interpreter, on the
\* reviews of any reviewers.
InvokeAggregateVotes ==
    /\ Len(outputs) < MaxInvocations
    /\ \E reviewer_list \in [1..Len(vote_reviews) -> ReviewerFields] :
          outputs' = Append(outputs,
              AggregateVotes(ReviewData(vote_reviews, reviewer_list),
                             vote_labels, set_order))
    /\ UNCHANGED <<runVars, labelVars, assignVars, processVars, vote_reviews, vote_labels, set_order>>

\* The service is restarted: the new interpreter has another string hash
\* seed, hence possibly another iteration order for the same set of labels.
RestartInterpreter ==
    /\ Len(outputs) < MaxInvocations
    /\ \E order \in SetOrders(DOMAIN vote_labels) :
          /\ order # set_order
          /\ set_order' = order
    /\ UNCHANGED <<runVars, labelVars, assignVars, processVars, vote_reviews, vote_labels, outputs>>

VoteNext ==
    \/ InvokeAggregateVotes
    \/ RestartInterpreter

VoteSpec == VoteInit /\ [][VoteNext]_vars

(***************************************************************************)
(* Blind labels on long lists: the end of a generate_answers over up to    *)
(* MaxAnswers selected models, and assign_labels on a list as long.        *)
(***************************************************************************)
\* The selected_models of a run over n instances of one model.
ManyModels(n) ==
    [k \in 1..n |-> [provider |-> "openai", model_name |-> "gpt-4o",
                     params |-> [instance_label |-> None]]]

\* The run has been created over n models, generate_answers has been
\* entered, every task has made its adapter call and has finished; the gather
\* is about to return.  assign_labels is given dicts for the same models.
AssignInit ==
    /\ NoLabelling
    /\ NoVoting
    /\ NoInvocations
    /\ max_concurrency \in 1..MaxConcurrency
    /\ \E n \in 0..MaxAnswers, result \in AnswerResults :
          /\ db_models = SelectedRows(ManyModels(n))
          /\ tasks = [k \in 1..n |-> [NewTask EXCEPT !.st = "done",
                                                     !.log = <<result>>]]
          /\ completed = [k \in 1..n |-> k]
          /\ last = [NoCall EXCEPT !.op = "generate_answers", !.run_id = 1,
                                   !.outcome = "running", !.adapter_calls = n]
          /\ assign_input = [k \in 1..n |->
                                [producer_model |-> CreateRunLabel(ManyModels(n), k),
                                 text |-> result.text]]
    /\ db_run = TRUE
    /\ db_status = GENERATING_ANSWERS
    /\ db_answers = <<>>
    /\ db_reviews = <<>>
    /\ db_aggregation = <<>>
    /\ pc = "generate_answers"
    /\ semaphore = max_concurrency
    /\ answers = <<>>
    /\ reviewers = <<>>
    /\ calls = 1
    /\ refused = NoRefusal
    /\ assign_output = <<>>

\* One application of assign_labels.
ApplyAssignLabels ==
    /\ assign_output = <<>>
    /\ Len(assign_input) > 0
    /\ assign_output' = AssignLabels(assign_input)
    /\ UNCHANGED <<runVars, labelVars, voteVars, processVars, assign_input>>

AssignNext ==
    \/ GenerateAnswersFinish
    \/ ApplyAssignLabels

AssignSpec == AssignInit /\ [][AssignNext]_vars

(***************************************************************************)
(* Invocations side by side in one process: each request handler builds    *)
(* its own RunOrchestrator, and each generate_answers / run_evaluation     *)
(* invocation builds its own semaphore from the shared settings.  Only the *)
(* semaphores and the state of the tasks are followed.                     *)
(***************************************************************************)
\* semaphore = asyncio.Semaphore(self.settings.max_concurrency), then one
\* task per model or reviewer, all waiting at "async with semaphore".
StartInvocation(op, n) ==
    /\ Len(invocations) < MaxSideBySide
    /\ invocations' = Append(invocations,
                             [op |-> op,
                              tasks |-> [i \in 1..n |-> "waiting"],
                              semaphore |-> max_concurrency])
    /\ UNCHANGED <<runVars, labelVars, voteVars, assignVars>>

\* A task of invocation v enters "async with semaphore" and starts its
\* adapter call.
TaskAcquires(v, i) ==
    /\ v \in DOMAIN invocations
    /\ i \in DOMAIN invocations[v].tasks
    /\ invocations[v].tasks[i] = "waiting"
    /\ \A j \in 1..(i - 1) : invocations[v].tasks[j] # "waiting"
    /\ CanAcquire(invocations[v].semaphore)
    /\ invocations' = [invocations EXCEPT ![v].tasks[i] = "running",
                                          ![v].semaphore = @ - 1]
    /\ UNCHANGED <<runVars, labelVars, voteVars, assignVars>>

\* The adapter call (the last one, for a review) returns and the task leaves
\* the semaphore block.
TaskReleases(v, i) ==
    /\ v \in DOMAIN invocations
    /\ i \in DOMAIN invocations[v].tasks
    /\ invocations[v].tasks[i] = "running"
    /\ invocations' = [invocations EXCEPT ![v].tasks[i] = "done",
                                          ![v].semaphore = @ + 1]
    /\ UNCHANGED <<runVars, labelVars, voteVars, assignVars>>

\* Adapter calls in flight in the process, over all its invocations.
ProcessInFlight ==
    Cardinality({vi \in (1..MaxSideBySide) \X (1..MaxModels) :
        /\ vi[1] \in DOMAIN invocations
        /\ vi[2] \in DOMAIN invocations[vi[1]].tasks
        /\ invocations[vi[1]].tasks[vi[2]] = "running"})

ProcessNext ==
    \/ \E op \in {"generate_answers", "run_evaluation"}, n \in 1..MaxModels :
          StartInvocation(op, n)
    \/ \E v \in 1..MaxSideBySide, i \in 1..MaxModels : TaskAcquires(v, i)
    \/ \E v \in 1..MaxSideBySide, i \in 1..MaxModels : TaskReleases(v, i)

ProcessSpec == Init /\ [][ProcessNext]_vars

(***************************************************************************)
(* Properties.                                                             *)
(***************************************************************************)
\* The latest invocation is a run_evaluation on the existing run and has
\* ended (it returned or raised).
EvaluationEnded ==
    /\ pc = "idle"
    /\ last.op = "run_evaluation"
    /\ last.outcome \in {"returned", "raised"}
    /\ last.error # NotFound

\* Rows the latest invocation added to each table.
ReviewsCreated == Len(db_reviews) - last.n_reviews
AggregationsCreated == Len(db_aggregation) - last.n_aggregation
AnswersCreated == Len(db_answers) - last.n_answers

C2_CompleteOnlyWithAllReviews ==
    db_status = COMPLETE =>
        /\ EvaluationEnded
        /\ last.outcome = "returned"
        /\ ReviewsCreated = last.attempted
        /\ last.attempted >= 1
        /\ AggregationsCreated = 1
        /\ Len(db_aggregation) >= 1

\* C2 witness: an evaluation with two reviewers completed.
C2_Witness ==
    /\ db_status = COMPLETE
    /\ last.attempted = 2
    /\ ReviewsCreated = 2

\* The Answers of the run whose error is unset (None or empty, as the code
\* tests it).
UnerroredAnswers == {i \in 1..Len(db_answers) : ~Truthy(db_answers[i].error)}

C4_AggregationIffComplete ==
    (pc = "idle" /\ db_run) =>
        (Len(db_aggregation) > 0 <=> db_status = COMPLETE)

\* The latest invocation is a generate_answers on the existing run and has
\* ended.
GenerationEnded ==
    /\ pc = "idle"
    /\ last.op = "generate_answers"
    /\ last.outcome \in {"returned", "raised"}
    /\ last.error # NotFound

\* C5: a generate_answers call on an existing run returns with the status
\* ANSWERS_COMPLETE and exactly one new Answer row per SelectedModel,
\* whichever of its adapter calls returned an error or raised.
C5_GenerationAlwaysCompletes ==
    GenerationEnded =>
        /\ last.outcome = "returned"
        /\ db_status = ANSWERS_COMPLETE
        /\ AnswersCreated = Len(db_models)

\* C5 witness: a generation over two models ended although one task raised
\* and the other adapter call returned an error.
C5_Witness ==
    /\ GenerationEnded
    /\ Len(db_models) = 2
    /\ \E i, j \in (last.n_answers + 1)..Len(db_answers) :
          /\ db_answers[i].error = UnknownProvider("lmstudio")
          /\ db_answers[j].error = "rate limited"

\* C6: at the end of generate_answers the k-th new Answer carries the
\* provider and the instance label of the k-th SelectedModel, the k-th blind
\* label, and the text and error returned by the adapter call made for that
\* model, whatever the order in which the tasks completed.
C6_AnswersFollowModelOrder ==
    [][(pc = "generate_answers" /\ pc' = "idle") =>
          \A k \in 1..Len(db_models) :
              LET row == db_answers'[Len(db_answers) + k]
              IN  /\ row.provider = db_models[k].provider
                  /\ row.producer_model = db_models[k].params.instance_label
                  /\ row.label = Alphabet[k]
                  /\ ~Raised(tasks[k]) =>
                        /\ row.text = tasks[k].log[1].text
                        /\ row.error = tasks[k].log[1].error]_vars

\* C6 witness: a generation ended whose second task completed before the
\* first, the two adapter calls having returned different results.
C6_Witness ==
    /\ GenerationEnded
    /\ completed = <<2, 1>>
    /\ AnswersCreated = 2
    /\ db_answers[Len(db_answers) - 1].provider = "openai"
    /\ db_answers[Len(db_answers)].provider = "openai"
    /\ db_answers[Len(db_answers) - 1].error # db_answers[Len(db_answers)].error

\* C7: within a generate_answers or run_evaluation invocation the number of
\* adapter calls in flight never exceeds max_concurrency.
C7_ConcurrencyBound == InFlight <= max_concurrency

\* C7 witness: max_concurrency review calls are in flight while another
\* reviewer is waiting for the semaphore.
C7_Witness ==
    /\ pc = "run_evaluation"
    /\ InFlight = max_concurrency
    /\ \E i \in DOMAIN tasks : Waiting(i)

C9_TerminalNeverChanges ==
    [][(db_status \in {COMPLETE, FAILED}) => (db_status' = db_status)]_vars

\* C9 amended: a committed status COMPLETE or FAILED changes only at the
\* entry of a new invocation: to GENERATING_ANSWERS on entering
\* generate_answers, to EVALUATING on entering run_evaluation; no other step
\* of either operation changes it.
C9_TerminalLeftOnlyOnEntry ==
    [][(db_status \in {COMPLETE, FAILED} /\ db_status' # db_status) =>
          /\ pc = "idle"
          /\ \/ pc' = "generate_answers" /\ db_status' = GENERATING_ANSWERS
             \/ pc' = "evaluation_gate" /\ db_status' = EVALUATING]_vars

\* C9 witness: a new evaluation has been entered on a run that was COMPLETE.
C9_Witness ==
    /\ pc = "evaluation_gate"
    /\ db_status = EVALUATING
    /\ Len(db_aggregation) = 1

\* C10: the run never has more than one AggregationResult, and an existing
\* AggregationResult is never modified or removed.
C10_AtMostOneAggregation ==
    /\ [](Len(db_aggregation) <= 1)
    /\ [][Len(db_aggregation) >= 1 => db_aggregation' = db_aggregation]_vars

\* C10 witness: a second evaluation of a run that has an aggregation ended
\* with every reviewer's review usable; the insert was refused.
C10_Witness ==
    /\ EvaluationEnded
    /\ last.error = IntegrityError
    /\ last.errored = 0
    /\ last.attempted = 2
    /\ Len(db_aggregation) = 1

\* C11 as stated: the blind labels of the run's Answers are pairwise
\* distinct, whatever operations have been invoked on the run.
C11_BlindLabelsDistinct ==
    \A i, j \in 1..Len(db_answers) :
        i # j => db_answers[i].label # db_answers[j].label

\* C12 as stated: the instance labels given by create_run's labelling or
\* by _compute_instance_labels to any model list are pairwise distinct.
C12_InstanceLabelsDistinct ==
    \A i, j \in DOMAIN label_map : i # j => label_map[i] # label_map[j]

\* C13 as stated: _compute_instance_labels applied to a list whose params
\* carry the labels written by a first application of it returns the same
\* label for every model.
C13_LabellingIdempotent ==
    [][(/\ applied # <<>>
        /\ applied[Len(applied)] = "_compute_instance_labels"
        /\ applied' = Append(applied, "_compute_instance_labels"))
          => label_map' = label_map]_vars

\* The sum of a sequence of integers.
RECURSIVE SeqSum(_)
SeqSum(seq) == IF seq = <<>> THEN 0 ELSE Head(seq) + SeqSum(Tail(seq))

\* The universe of labels aggregate_votes was given.
Universe == DOMAIN vote_labels

\* The reviews given to aggregate_votes, and those with a non-empty
\* rank_order.
AllReviews == 1..Len(vote_reviews)
RankedReviews == {k \in AllReviews : vote_reviews[k].rank_order # <<>>}

\* The points n-1-p summed over the 0-based positions p at which the label
\* occurs in a rank_order of length n.
BordaPoints(rank_order, l) ==
    SeqSum([p \in 1..Len(rank_order) |->
               IF rank_order[p] = l THEN Len(rank_order) - p ELSE 0])

BordaSum(l) ==
    SeqSum([k \in 1..Len(vote_reviews) |->
               BordaPoints(vote_reviews[k].rank_order, l)])

\* C14: in every result of aggregate_votes, borda_totals is keyed by the
\* universe, the total of a label is the sum of n-1-p over every review
\* with a non-empty rank_order of length n and every position p at which the
\* label occurs in it, and no label outside the universe appears in the
\* result.
C14_BordaTotals ==
    \A n \in DOMAIN outputs :
        /\ DOMAIN outputs[n].borda_totals = Universe
        /\ \A l \in Universe : outputs[n].borda_totals[l] = BordaSum(l)
        /\ \A k \in DOMAIN outputs[n].final_ranking :
              outputs[n].final_ranking[k] \in Universe

\* C14 witness: over the universe A, B one review ranks A, B and the other
\* ranks C, A; A has the point of the first review only.
C14_Witness ==
    /\ Len(outputs) >= 1
    /\ Universe = {"A", "B"}
    /\ Len(vote_reviews) = 2
    /\ vote_reviews[1].rank_order = <<"A", "B">>
    /\ vote_reviews[2].rank_order = <<"C", "A">>
    /\ outputs[1].borda_totals["A"] = 1
    /\ outputs[1].borda_totals["B"] = 0

\* A score of a record, a missing score counting as 0.
ScoreOf(record, field) ==
    IF field \in DOMAIN record.scores THEN record.scores[field] ELSE 0

\* The sum of a score over the records of a label in the reviews taken, and
\* the number of those records.
RecordTotal(l, field, taken) ==
    SeqSum([k \in 1..Len(vote_reviews) |->
        IF k \in taken
        THEN SeqSum([j \in 1..Len(vote_reviews[k].reviews) |->
                 IF vote_reviews[k].reviews[j].label = l
                 THEN ScoreOf(vote_reviews[k].reviews[j], field) ELSE 0])
        ELSE 0])

RecordCount(l, taken) ==
    SeqSum([k \in 1..Len(vote_reviews) |->
        IF k \in taken
        THEN SeqSum([j \in 1..Len(vote_reviews[k].reviews) |->
                 IF vote_reviews[k].reviews[j].label = l THEN 1 ELSE 0])
        ELSE 0])

\* The average correctness score of a label, as a fraction; 0 without
\* records.
CorrectnessAverage(l) ==
    IF RecordCount(l, RankedReviews) = 0 THEN [num |-> 0, den |-> 1]
    ELSE [num |-> RecordTotal(l, "correctness", RankedReviews),
          den |-> RecordCount(l, RankedReviews)]

\* The tuple (borda total, score average, correctness average) of x is
\* lexicographically greater than or equal to that of y.
KeyNotBelow(out, x, y) ==
    LET bx == out.borda_totals[x]
        by == out.borda_totals[y]
        sx == out.score_averages[x]
        sy == out.score_averages[y]
        cx == CorrectnessAverage(x)
        cy == CorrectnessAverage(y)
    IN  \/ bx > by
        \/ bx = by /\ sx.num * sy.den > sy.num * sx.den
        \/ /\ bx = by
           /\ sx.num * sy.den = sy.num * sx.den
           /\ cx.num * cy.den >= cy.num * cx.den

\* C15: final_ranking is a permutation of the universe in which the tuple
\* (borda total, score average, correctness average) never increases.
C15_RankingSortedDescending ==
    \A n \in DOMAIN outputs :
        LET final_ranking == outputs[n].final_ranking
        IN  /\ Len(final_ranking) = Cardinality(Universe)
            /\ {final_ranking[k] : k \in DOMAIN final_ranking} = Universe
            /\ \A h, k \in DOMAIN final_ranking :
                  h < k => KeyNotBelow(outputs[n], final_ranking[h], final_ranking[k])

\* C15 witness: A and B are tied on the Borda total, B has the higher score
\* average and is ranked first although the set is iterated A, B.
C15_Witness ==
    /\ Len(outputs) >= 1
    /\ set_order = <<"A", "B">>
    /\ outputs[1].borda_totals["A"] = outputs[1].borda_totals["B"]
    /\ FracLess(outputs[1].score_averages["A"], outputs[1].score_averages["B"])
    /\ outputs[1].final_ranking = <<"B", "A">>

\* C16 as stated: all invocations of aggregate_votes on the same reviews
\* and label_to_model return the same final_ranking.
C16_RankingDeterministic ==
    \A m, n \in DOMAIN outputs :
        outputs[m].final_ranking = outputs[n].final_ranking

\* The number of reviews whose non-empty rank_order starts with the label.
FirstPlaces(l) ==
    Cardinality({k \in RankedReviews : vote_reviews[k].rank_order[1] = l})

\* C17: first_place_votes of a label is the number of reviews whose
\* non-empty rank_order has the label at position 0, and the votes of the
\* universe sum to at most the number of reviews.
C17_FirstPlaceVotes ==
    \A n \in DOMAIN outputs :
        /\ \A l \in Universe : outputs[n].first_place_votes[l] = FirstPlaces(l)
        /\ SeqSum([k \in 1..Len(set_order) |->
                      outputs[n].first_place_votes[set_order[k]]])
              <= Len(vote_reviews)

\* C17 witness: of two reviews one ranks a label outside the universe
\* first, so that the votes sum to less than the number of reviews.
C17_Witness ==
    /\ Len(outputs) >= 1
    /\ Universe = {"A", "B"}
    /\ Len(vote_reviews) = 2
    /\ vote_reviews[1].rank_order = <<"C", "A">>
    /\ vote_reviews[2].rank_order = <<"B", "A">>
    /\ outputs[1].first_place_votes = [l \in Universe |-> IF l = "B" THEN 1 ELSE 0]

\* The fraction f is the quotient total / count, or 0 when count is 0.
IsAverage(f, total, count) ==
    IF count = 0 THEN f.num = 0 ELSE f.num * count = total * f.den

\* C18 as stated: the score average of a universe label is 0.0 when no
\* review has a score record for it, and otherwise the sum of the overall
\* scores of its records divided by the number of its records.
C18_ScoreAverages ==
    \A n \in DOMAIN outputs :
        \A l \in Universe :
            IsAverage(outputs[n].score_averages[l],
                      RecordTotal(l, "overall", AllReviews),
                      RecordCount(l, AllReviews))

\* C18 amended: the records that count are those of the reviews with a
\* non-empty rank_order; a label without such a record has the average 0.0,
\* and no invocation divides by zero.
C18_ScoreAveragesOfRankedReviews ==
    \A n \in DOMAIN outputs :
        \A l \in Universe :
            /\ outputs[n].score_averages[l].den > 0
            /\ IsAverage(outputs[n].score_averages[l],
                         RecordTotal(l, "overall", RankedReviews),
                         RecordCount(l, RankedReviews))

\* C18 witness: B has two records, 9 and 6, hence the average 15/2, while
\* C has no record and the average 0.0.
C18_Witness ==
    /\ Len(outputs) >= 1
    /\ Universe = {"A", "B", "C"}
    /\ RecordCount("B", RankedReviews) = 2
    /\ RecordCount("C", AllReviews) = 0
    /\ outputs[1].score_averages["B"] = [num |-> 15, den |-> 2]
    /\ outputs[1].score_averages["C"] = Zero

\* The blind labels of the Answers whose error is unset.
UnerroredLabels == {db_answers[i].label : i \in UnerroredAnswers}

\* The AggregationResult the latest run_evaluation created.
CreatedAggregation == db_aggregation[Len(db_aggregation)]

Answered(i) == ~Raised(tasks[i]) /\ ~Truthy(LastResult(tasks[i]).error)

\* The final result of task i has no error, an empty rank_order and some
\* parsed reviews.
ScoresOnly(i) ==
    /\ Answered(i)
    /\ LastResult(tasks[i]).rank_order = <<>>
    /\ LastResult(tasks[i]).parsed_reviews # <<>>

\* The indexes of the parsed reviews that carry a label.
Labelled(parsed_reviews) ==
    {k \in 1..Len(parsed_reviews) : Truthy(parsed_reviews[k].label)}

\* (overall, correctness) of a parsed review, a missing score counting as 0.
OverallOf(r) == IF "overall" \in DOMAIN r.scores THEN r.scores.overall ELSE 0
CorrectnessOf(r) == IF "correctness" \in DOMAIN r.scores THEN r.scores.correctness ELSE 0

\* r is not ranked below s by (overall, correctness).
NotBelow(r, s) ==
    \/ OverallOf(r) > OverallOf(s)
    \/ OverallOf(r) = OverallOf(s) /\ CorrectnessOf(r) >= CorrectnessOf(s)

\* rank_order lists the labels of the labelled parsed reviews, each once per
\* record, in an order descending by (overall, correctness).
IsScoreRanking(rank_order, parsed_reviews) ==
    \E at \in [1..Len(rank_order) -> Labelled(parsed_reviews)] :
        /\ Cardinality(Labelled(parsed_reviews)) = Len(rank_order)
        /\ \A h, k \in 1..Len(rank_order) : h # k => at[h] # at[k]
        /\ \A k \in 1..Len(rank_order) : rank_order[k] = parsed_reviews[at[k]].label
        /\ \A h, k \in 1..Len(rank_order) :
              h < k => NotBelow(parsed_reviews[at[h]], parsed_reviews[at[k]])

\* The Review row that the step storing the reviews writes for task i.
StoredRowOf(i) ==
    Len(db_reviews) + Cardinality({j \in 1..i : Answered(j)})

C21_RaisedTaskIsIsolated ==
    [][(pc = "generate_answers" /\ pc' = "idle") =>
          /\ last'.outcome = "returned"
          /\ Len(db_answers') = Len(db_answers) + Len(tasks)
          /\ \A k \in DOMAIN tasks :
                LET row == db_answers'[Len(db_answers) + k]
                IN  IF tasks[k].exc # None
                    THEN /\ row.text = ""
                         /\ row.error = tasks[k].exc
                    ELSE /\ row.text = tasks[k].log[1].text
                         /\ row.error = tasks[k].log[1].error]_vars

\* C21 witness: a generation over two models ended; the task of the model
\* with no registered adapter raised and its sibling's answer was stored.
C21_Witness ==
    /\ GenerationEnded
    /\ last.outcome = "returned"
    /\ AnswersCreated = 2
    /\ db_answers[Len(db_answers) - 1].error = UnknownProvider("lmstudio")
    /\ db_answers[Len(db_answers) - 1].text = ""
    /\ db_answers[Len(db_answers)].text = "an answer"
    /\ db_answers[Len(db_answers)].error = None

\* C22 as stated: a run_evaluation call on the existing run that has ended
\* either returned with the status COMPLETE or raised with the status
\* FAILED; the status is never left at EVALUATING, also when the run was
\* evaluated before.
C22_EvaluationEndsTerminal ==
    EvaluationEnded =>
        \/ last.outcome = "returned" /\ db_status = COMPLETE
        \/ last.outcome = "raised" /\ db_status = FAILED

\* C23: generate_answers and run_evaluation go ahead only on the id of the
\* run that exists; an invocation with any other id raises the not-found
\* error, and the step that raises it starts no adapter call (no task is
\* created or moved, no call is counted) and leaves the run, its selected
\* models, answers, reviews and aggregation exactly as they were.
C23_NotFoundChangesNothing ==
    /\ [](last.op \in {"generate_answers", "run_evaluation"} =>
            db_run /\ last.run_id = 1)
    /\ [][refused' # refused /\ refused' # NoRefusal =>
            /\ ~(db_run /\ refused'.run_id = 1)
            /\ refused'.error = NotFound
            /\ UNCHANGED <<db_run, db_status, db_models, db_answers,
                           db_reviews, db_aggregation, tasks, semaphore,
                           pc, last>>]_vars

\* C23 witness: an invocation was refused for an id that no run has while
\* the store holds a run with answers, reviews and an aggregation.
C23_Witness ==
    /\ refused.error = NotFound
    /\ refused.op = "run_evaluation"
    /\ refused.run_id = 2
    /\ db_run
    /\ Len(db_answers) > 0
    /\ Len(db_reviews) > 0
    /\ Len(db_aggregation) > 0

\* The label the answer at the 1-based position k is to carry: the k-th
\* letter up to Z, then Z1, Z2, ...
ExpectedLabel(k) ==
    IF k <= 26
    THEN <<"A", "B", "C", "D", "E", "F", "G", "H", "I", "J", "K", "L", "M",
           "N", "O", "P", "Q", "R", "S", "T", "U", "V", "W", "X", "Y", "Z">>[k]
    ELSE "Z" \o ToString(k - 26)

\* The rows carry the expected labels in the order of the models they were
\* made for, and no two rows carry the same label.
LabelledInOrder(rows, n) ==
    /\ Len(rows) = n
    /\ \A k \in 1..n :
          /\ rows[k].label = ExpectedLabel(k)
          /\ rows[k].producer_model = CreateRunLabel(ManyModels(n), k)
    /\ \A j, k \in 1..n : j # k => rows[j].label # rows[k].label
    /\ n >= 27 => rows[26].label = "Z" /\ rows[27].label = "Z1"

\* C24: the Answers one generate_answers invocation writes, and the list
\* assign_labels returns, carry in input order the letters A..Z and then Z1,
\* Z2, ... (the 27th is Z1), and these labels are pairwise distinct.
C24_LabelsFollowInputOrder ==
    /\ (pc = "idle" => LabelledInOrder(db_answers, Len(db_models)))
    /\ (assign_output # <<>> => LabelledInOrder(assign_output, Len(assign_input)))

\* C24 witness: both functions have labelled a list of more than 26 answers.
C24_Witness ==
    /\ pc = "idle"
    /\ Len(db_answers) >= 27
    /\ db_answers[27].label = "Z1"
    /\ Len(assign_output) >= 27
    /\ assign_output[27].label = "Z1"

\* C25 as stated: no candidate answer of an evaluation comes from a
\* generation that failed: every candidate's error is None, the value only a
\* successful adapter call leaves, whatever the failure message was.
C25_FailedAnswersAreNeverCandidates ==
    pc = "run_evaluation" => \A k \in 1..Len(answers) : answers[k].error = None

\* C26 as stated: the final_ranking of every AggregationResult of the run
\* contains at least 2 distinct labels, whatever operations came before.
C26_RankingHasTwoLabels ==
    \A k \in 1..Len(db_aggregation) :
        Cardinality({db_aggregation[k].final_ranking[i] :
                        i \in 1..Len(db_aggregation[k].final_ranking)}) >= 2

\* C27 as stated: the adapter calls in flight over all the invocations that
\* run side by side in the process never exceed max_concurrency.
C27_GlobalConcurrencyLimit == ProcessInFlight <= max_concurrency

\* Adapter calls in flight in the invocation v.
InFlightOf(v) ==
    Cardinality({i \in DOMAIN invocations[v].tasks :
                    invocations[v].tasks[i] = "running"})

\* C27 amended: the limit holds for each invocation separately: every
\* invocation has its own semaphore of max_concurrency slots, the adapter
\* calls in flight within one invocation never exceed max_concurrency, and
\* over k invocations side by side they never exceed k * max_concurrency.
C27_LimitIsPerInvocation ==
    /\ \A v \in DOMAIN invocations :
          /\ InFlightOf(v) <= max_concurrency
          /\ invocations[v].semaphore = max_concurrency - InFlightOf(v)
    /\ ProcessInFlight <= Len(invocations) * max_concurrency

\* C27 witness: two invocations side by side each have max_concurrency
\* adapter calls in flight, and one of them has a task waiting.
C27_Witness ==
    /\ Len(invocations) = 2
    /\ InFlightOf(1) = max_concurrency
    /\ InFlightOf(2) = max_concurrency
    /\ ProcessInFlight = 2 * max_concurrency
    /\ \E i \in DOMAIN invocations[1].tasks : invocations[1].tasks[i] = "waiting"

\* C28: during the reviews every task that has entered the semaphore and
\* has not finished holds one slot, between a failed attempt and its retry
\* too, so the free slots are always max_concurrency minus the tasks in
\* progress; and with max_concurrency = 1, while one reviewer's task is in
\* progress no step starts, continues or ends another reviewer's task.
C28_SlotHeldAcrossRetry ==
    /\ [](pc = "run_evaluation" =>
            /\ semaphore = max_concurrency - InFlight
            /\ semaphore >= 0)
    /\ [][(pc = "run_evaluation" /\ max_concurrency = 1) =>
            \A i \in DOMAIN tasks :
                Running(i) => \A j \in DOMAIN tasks \ {i} : tasks'[j] = tasks[j]]_vars

\* C28 witness: with max_concurrency = 1 a reviewer's first attempt has
\* failed and its retry is in flight while another reviewer is still waiting
\* for the slot.
C28_Witness ==
    /\ pc = "run_evaluation"
    /\ max_concurrency = 1
    /\ \E i, j \in DOMAIN tasks :
          /\ Running(i)
          /\ Len(tasks[i].log) = 1
          /\ Truthy(tasks[i].log[1].error)
          /\ Waiting(j)

\* C29: from the entry of generate_answers (of run_evaluation, once past the
\* answers gate) until its fan-out is over, the committed status is
\* GENERATING_ANSWERS (EVALUATING) and the store holds exactly the answers,
\* reviews and aggregations it held at entry; the step that changes any of
\* them is taken only when every task of the fan-out has finished.
C29_WritesOnlyAfterGather ==
    /\ [](pc = "generate_answers" =>
            /\ db_status = GENERATING_ANSWERS
            /\ AnswersCreated = 0)
    /\ [](pc = "run_evaluation" =>
            /\ db_status = EVALUATING
            /\ ReviewsCreated = 0
            /\ AggregationsCreated = 0)
    /\ [][(pc \in {"generate_answers", "run_evaluation"} /\
           <<db_status, db_answers, db_reviews, db_aggregation>>' #
               <<db_status, db_answers, db_reviews, db_aggregation>>) =>
            \A i \in DOMAIN tasks : Done(i)]_vars

\* C29 witness: one generation task has finished with an answer and its
\* sibling's adapter call is still in flight; nothing has been stored.
C29_Witness ==
    /\ pc = "generate_answers"
    /\ \E i, j \in DOMAIN tasks :
          /\ Done(i)
          /\ tasks[i].log = <<[text |-> "an answer", error |-> None]>>
          /\ Running(j)
    /\ db_answers = <<>>
    /\ db_status = GENERATING_ANSWERS

\* The final result of the reviewer's task k carries no error message, no
\* rank_order and no score record with a label to derive one from.
FellBack(k) ==
    /\ tasks[k].exc = None
    /\ LET r == tasks[k].log[Len(tasks[k].log)]
       IN  /\ r.error \in {None, ""}
           /\ r.rank_order = <<>>
           /\ \A p \in 1..Len(r.parsed_reviews) :
                 r.parsed_reviews[p].label \in {None, ""}

\* The labels of the candidate answers, in answer order.
CandidateLabels == [i \in 1..Len(answers) |-> answers[i].label]

ExpectedSections ==
    LET shown == SelectSeq(db_answers, LAMBDA a : a.error \in {None, ""})
    IN  [k \in 1..Len(shown) |->
            [heading |-> "### Answer " \o shown[k].label, body |-> shown[k].text]]

C32_BordaTotalBounded ==
    \A n \in DOMAIN outputs :
        \A l \in DOMAIN outputs[n].borda_totals :
            outputs[n].borda_totals[l] <=
                (Cardinality(DOMAIN vote_labels) - 1) * Len(vote_reviews)

\* C33: a run_evaluation call that passed the answers gate and whose
\* reviews were stored has created one Review for every reviewer whose task
\* did not raise and whose final result carries no error message, and every
\* one of these Reviews has a non-empty rank_order: no result is discarded for
\* an empty rank_order.
C33_NoReviewIsDiscarded ==
    (EvaluationEnded /\ last.attempted > 0 /\ last.error # IntegrityError) =>
        /\ ReviewsCreated = last.attempted - last.errored
        /\ \A k \in (last.n_reviews + 1)..Len(db_reviews) :
              db_reviews[k].rank_order # <<>>

\* C33 witness: two reviewers returned nothing that could be parsed, no
\* scores and no ranking; both Reviews were stored with the fallback ranking.
C33_Witness ==
    /\ EvaluationEnded
    /\ last.attempted = 2
    /\ last.errored = 0
    /\ ReviewsCreated = 2
    /\ \A k \in (last.n_reviews + 1)..Len(db_reviews) :
          /\ db_reviews[k].reviews = <<>>
          /\ db_reviews[k].rank_order = <<"A", "B">>

\* C34: when every adapter call returns, every generate_answers and
\* run_evaluation invocation on the existing run ends, every task that waits
\* for the semaphore gets past it, and once all the tasks of an invocation
\* have finished, by returning or by raising, every slot of its semaphore is
\* free again.
C34_InvocationsTerminate ==
    /\ (pc # "idle") ~> (pc = "idle")
    /\ \A i \in 1..MaxModels :
          (i \in DOMAIN tasks /\ Waiting(i)) ~> ~(i \in DOMAIN tasks /\ Waiting(i))
    /\ []((pc \in {"generate_answers", "run_evaluation"} /\
           \A i \in DOMAIN tasks : Done(i)) => semaphore = max_concurrency)

\* C34 witness: with one slot, a generate_answers over two models ended in
\* which the first task raised inside the semaphore and the second, which
\* waited for the slot, made its adapter call.
C34_Witness ==
    /\ GenerationEnded
    /\ max_concurrency = 1
    /\ Len(db_models) = 2
    /\ db_models[1].provider = "lmstudio"
    /\ last.adapter_calls = 1
    /\ AnswersCreated = 2

\* The request dicts of the same entries when they are passed as
\* reviewer_models: no top-level "instance_label" key.
AsReviewerModels(models) ==
    [k \in 1..Len(models) |->
        [provider |-> models[k].provider, model_name |-> models[k].model_name,
         params |-> models[k].params, instance_label |-> None]]

\* C35: on the same list of (provider, model_name, explicit
\* params.instance_label) entries, the labels the first labelling routine
\* applied to the list computes (create_run's inline loop or
\* _compute_instance_labels) are, entry by entry, the labels each of the
\* other two routines gives for that list: create_run, _compute_instance_labels
\* and the reviewer labelling of run_evaluation agree.
C35_LabellingRoutinesAgree ==
    [][(applied = <<>> /\ applied' # <<>>) =>
          /\ Len(label_map') = Len(model_list)
          /\ \A k \in 1..Len(model_list) :
                /\ label_map'[k] = CreateRunLabel(model_list, k)
                /\ label_map'[k] = ComputeInstanceLabels(model_list)[k]
                /\ label_map'[k] =
                      LabelReviewers(AsReviewerModels(model_list))[k].instance_label
                /\ label_map'[k] =
                      LabelReviewers(AsReviewerModels(model_list))[k].params.instance_label]_vars

\* C35 witness: a list of three entries has been labelled, two of them
\* duplicates with derived labels, the third one's label colliding with the
\* second's and disambiguated.
C35_Witness ==
    /\ Len(applied) = 1
    /\ Len(label_map) = 3
    /\ label_map[2] = "gpt-4o #2"
    /\ label_map[3] = "gpt-4o #2 #2"
    /\ label_map[1] = "gpt-4o #1"

\* C36: whenever the persisted status changes to FAILED or to COMPLETE, the
\* status persisted just before was EVALUATING and the step that wrote it
\* belongs to a run_evaluation invocation; no other operation writes either.
C36_TerminalOnlyFromEvaluating ==
    [][(db_status' \in {FAILED, COMPLETE} /\ db_status' # db_status) =>
          /\ db_status = EVALUATING
          /\ pc \in {"evaluation_gate", "run_evaluation"}
          /\ last.op = "run_evaluation"
          /\ last'.op = "run_evaluation"]_vars

\* C36 witness: a run that an earlier evaluation had left FAILED was
\* evaluated again, went through EVALUATING and is now COMPLETE.
C36_Witness ==
    /\ EvaluationEnded
    /\ db_status = COMPLETE
    /\ last.n_reviews > 0
    /\ last.n_aggregation = 0
    /\ AggregationsCreated = 1

\* C37: when run_evaluation raises "Some reviewers failed", the run is
\* FAILED, the call has stored one Review row for every reviewer that
\* succeeded, at least one and fewer than the reviewers attempted, and it has
\* stored no AggregationResult.
C37_PartialFailureKeepsReviews ==
    (EvaluationEnded /\ last.error = SomeReviewersFailed) =>
        /\ db_status = FAILED
        /\ ReviewsCreated >= 1
        /\ ReviewsCreated < last.attempted
        /\ ReviewsCreated = last.attempted - last.errored
        /\ AggregationsCreated = 0

\* C37 witness: a FAILED run that has a Review of the one reviewer of two that
\* succeeded, and no AggregationResult at all.
C37_Witness ==
    /\ EvaluationEnded
    /\ last.error = SomeReviewersFailed
    /\ db_status = FAILED
    /\ last.attempted = 2
    /\ Len(db_reviews) = 1
    /\ db_aggregation = <<>>

\* The list of reviews in the order given by the permutation p.
Reordered(ballots, p) == [k \in 1..Len(ballots) |-> ballots[p[k]]]

\* C38: the borda_totals and first_place_votes of every aggregate_votes
\* output are those aggregate_votes gives for the same ballots in any other
\* order and attributed to any other reviewers.
C38_TotalsIgnoreOrderAndReviewer ==
    \A n \in DOMAIN outputs :
        \A p \in SetOrders(DOMAIN vote_reviews),
           reviewer_list \in [DOMAIN vote_reviews -> ReviewerFields] :
            LET other == AggregateVotes(
                             ReviewData(Reordered(vote_reviews, p), reviewer_list),
                             vote_labels, set_order)
            IN  /\ outputs[n].borda_totals = other.borda_totals
                /\ outputs[n].first_place_votes = other.first_place_votes

\* C38 witness: two different ballots, both ranking A and B, have been
\* counted: A has one first place and B has one.
C38_Witness ==
    /\ Len(outputs) > 0
    /\ Len(vote_reviews) = 2
    /\ vote_reviews[1].rank_order = <<"A", "B">>
    /\ vote_reviews[2].rank_order = <<"B", "A">>
    /\ outputs[1].first_place_votes["A"] = 1
    /\ outputs[1].first_place_votes["B"] = 1
    /\ outputs[1].borda_totals["A"] = 1

\* rows is kept whole as the beginning of later.
Extends(later, rows) ==
    /\ Len(later) >= Len(rows)
    /\ \A k \in 1..Len(rows) : later[k] = rows[k]

\* C39: the step that ends a generate_answers call keeps every Answer row and
\* adds exactly one per SelectedModel, no other step changes the Answer rows,
\* so between invocations the run has k * m Answers for some number k of
\* calls made; and every step keeps the Review rows that exist, adding to
\* them at most.
C39_RowsOnlyAccumulate ==
    /\ [](pc = "idle" =>
            \E k \in 0..calls : Len(db_answers) = k * Len(db_models))
    /\ [][/\ Extends(db_answers', db_answers)
          /\ Len(db_answers') - Len(db_answers) =
                IF pc = "generate_answers" /\ pc' = "idle"
                THEN Len(db_models) ELSE 0
          /\ Extends(db_reviews', db_reviews)]_vars

\* C39 witness: the second generate_answers call on a run of two models has
\* ended after an evaluation had stored reviews: four Answers, and the
\* Reviews are still there.
C39_Witness ==
    /\ GenerationEnded
    /\ Len(db_models) = 2
    /\ last.n_answers = 2
    /\ Len(db_answers) = 4
    /\ last.n_reviews > 0
    /\ Len(db_reviews) = last.n_reviews

\* C40: no step of a run_evaluation invocation changes the Answer rows, and
\* no step of a generate_answers invocation changes the Review rows or the
\* AggregationResult rows; the calls that are refused with "Run not found"
\* change none of them either.
C40_PhasesKeepEachOthersRows ==
    [][/\ (pc \in {"evaluation_gate", "run_evaluation"} \/
           pc' \in {"evaluation_gate", "run_evaluation"} \/
           refused' # refused) =>
              db_answers' = db_answers
       /\ (pc = "generate_answers" \/ pc' = "generate_answers" \/
           refused' # refused) =>
              /\ db_reviews' = db_reviews
              /\ db_aggregation' = db_aggregation]_vars

\* C40 witness: a generate_answers call has ended on a run that an evaluation
\* had completed; the Reviews and the AggregationResult are those the call
\* found.
C40_Witness ==
    /\ GenerationEnded
    /\ AnswersCreated = 2
    /\ last.n_reviews = 2
    /\ Len(db_reviews) = 2
    /\ last.n_aggregation = 1
    /\ Len(db_aggregation) = 1

====
